---------------------------- MODULE Spec2Model ----------------------------
(***************************************************************************)
(* A model of pg-utils: a pandas-like facade over one PostgreSQL table.    *)
(*                                                                         *)
(* The database holds one table with the columns x (integer) and y (text), *)
(* as the repository's tests create it.  A cell is <<>> (NULL) or <<v>>.   *)
(* The model follows one Table object (pg_utils/table/table.py): an action *)
(* is one whole API call on it, and records in `call` what the call was    *)
(* given, which statements it executed on the connection, and how it       *)
(* ended.  Numbers that Python holds as floats are held exactly: a         *)
(* percentile argument in thousandths, a described value in hundredths, a  *)
(* bin edge as a numerator over the number of bins.                        *)
(*                                                                         *)
(* Spec follows describe, bin counts, selection and sort_values; SpecFD    *)
(* the Freedman-Diaconis rule; SpecInsert Table.insert; SpecLoad count,    *)
(* head and the CSV loaders; SpecLife construction, create, drop and       *)
(* exists; SpecConn Connection; SpecEq the equality of Tables and Columns  *)
(* (there obj holds the Table objects built so far); SpecDeco the          *)
(* decorator process_schema_and_conn; SpecColumn Column.head, is_unique    *)
(* and unique; SpecShape count and shape; SpecTxn the commits and          *)
(* rollbacks of the connection.                                            *)
(***************************************************************************)
EXTENDS Integers, Sequences, FiniteSets, TLC

VARIABLES
    rows,           \* the rows of the database table, in insertion order
    column_names,   \* Table.column_names of the Table object
    columns,        \* Table.columns of the Table object (each Column by its name)
    call,           \* the last API call and its outcome
    db,             \* the catalog's entry for the table: whether it exists, its columns,
                    \* and the rows as last committed while a transaction holds changes
    obj             \* what the Table object has cached, and what was done with it

vars == <<rows, column_names, columns, call, db, obj>>

----------------------------------------------------------------------------
(* Bounds of the model.                                                    *)

\* rows the table holds at most: Table.insert is not called on a fuller table
MaxRows == 5
\* largest count, and largest value, of a description handed to num_bins
MaxDescCount == 8
MaxDescValue == 3

----------------------------------------------------------------------------
(* Sequences and arithmetic.                                               *)

Range(s) == {s[i] : i \in 1..Len(s)}

Contains(s, e) == \E i \in 1..Len(s) : s[i] = e

\* list.index(e): the first position of e (1-based here), 0 when absent
IndexOf(s, e) ==
    IF Contains(s, e) THEN CHOOSE i \in 1..Len(s) : s[i] = e /\ \A j \in 1..(i-1) : s[j] # e
    ELSE 0

RECURSIVE FilterSeq(_, _)
FilterSeq(s, keep) ==
    IF s = <<>> THEN <<>>
    ELSE IF Head(s) \in keep THEN <<Head(s)>> \o FilterSeq(Tail(s), keep)
    ELSE FilterSeq(Tail(s), keep)

RECURSIVE InsertSorted(_, _)
InsertSorted(s, v) ==
    IF s = <<>> THEN <<v>>
    ELSE IF v <= Head(s) THEN <<v>> \o s
    ELSE <<Head(s)>> \o InsertSorted(Tail(s), v)

\* Python's sorted() on a list of numbers
RECURSIVE Sorted(_)
Sorted(s) ==
    IF s = <<>> THEN <<>> ELSE InsertSorted(Sorted(Tail(s)), Head(s))

RECURSIVE GCD(_, _)
GCD(a, b) == IF b = 0 THEN a ELSE GCD(b, a % b)

Min(a, b) == IF a <= b THEN a ELSE b

----------------------------------------------------------------------------
(* The database table and the catalog.                                     *)

NULL == <<>>

\* information_schema.columns for the table, by ordinal position
AllColumnNames == <<"x", "y">>

AllColumnDataTypes == [x |-> "integer", y |-> "text"]

numeric_datatypes ==
    {"smallint", "integer", "bigint", "decimal", "numeric", "real",
     "double precision", "serial", "bigserial", "float"}

Row(xv, yv) == [x |-> xv, y |-> yv]

\* the table of test8_sort_values.py
SortValuesTable ==
    << Row(<<3>>, <<"b">>), Row(<<1>>, <<"c">>), Row(<<2>>, <<"a">>),
       Row(<<4>>, <<"a">>), Row(<<2>>, <<"d">>) >>

\* a skewed column: a narrow interquartile range and one far value
SkewedTable ==
    << Row(<<0>>, <<"a">>), Row(<<0>>, <<"a">>), Row(<<0>>, <<"b">>),
       Row(<<1>>, <<"b">>), Row(<<60>>, <<"c">>) >>

\* the table of test9_insert.py, as created
EmptyTable == <<>>

\* a table of two rows
SmallTable == << Row(<<1>>, <<"a">>), Row(<<4>>, <<"b">>) >>

InitialTables == {SortValuesTable, SkewedTable, SmallTable, EmptyTable}

\* the rows Table.insert is given
InsertRows == {Row(NULL, NULL), Row(<<2>>, NULL)}

\* the order of text values
TextOrd == [a |-> 1, b |-> 2, c |-> 3, d |-> 4]

\* the non-null values of a column, in row order
RECURSIVE NonNull(_, _)
NonNull(rs, col) ==
    IF rs = <<>> THEN <<>>
    ELSE IF Head(rs)[col] = NULL THEN NonNull(Tail(rs), col)
    ELSE <<Head(rs)[col][1]>> \o NonNull(Tail(rs), col)

----------------------------------------------------------------------------
(* The catalog and the Table object's cached attributes.                   *)

\* the rows of information_schema.columns for a table with these columns
Metadata(names) ==
    [i \in 1..Len(names) |->
        [column_name |-> names[i], data_type |-> AllColumnDataTypes[names[i]]]]

\* the catalog's entry for a table with the given columns, and for none;
\* last is the last operation that created or dropped the table; committed
\* is <<>> when the connection's transaction has changed no row, and else
\* holds the rows as they were last committed
Catalog(names) ==
    [exists |-> TRUE, columns |-> Metadata(names), last |-> "create", committed |-> <<>>]
NoTable == [exists |-> FALSE, columns |-> <<>>, last |-> "drop", committed |-> <<>>]

\* the rows a rollback of the connection leaves in a table of rows rs
CommittedRows(d, rs) == IF d.committed = <<>> THEN rs ELSE d.committed[1]

\* a statement that changes the rows rs and is not followed by a commit
\* leaves the change in the connection's transaction
Uncommitted(d, rs) == IF d.committed = <<>> THEN [d EXCEPT !.committed = <<rs>>] ELSE d

\* Connection.commit(): self.connection.commit()
CommittedMutant(d) == d
Committed(d) == [d EXCEPT !.committed = <<>>]

\* a Table object before its constructor reads anything: the LazyProperty
\* caches of _all_column_metadata (read `fetches` times), count and shape
\* and of is_unique of each of its Columns empty, drop() not called
FreshTable ==
    [metadata |-> <<>>, fetches |-> 0, count |-> <<>>, shape |-> <<>>,
     dropped |-> FALSE, inserted |-> <<>>,
     is_unique |-> [c \in Range(AllColumnNames) |-> <<>>]]

\* a Table object as its constructor leaves it
NewTable(all, fetches) ==
    [FreshTable EXCEPT !.metadata = <<Metadata(all)>>, !.fetches = fetches]

----------------------------------------------------------------------------
(* The record of an API call.                                              *)

NoneBins == [ty |-> "NoneType", num |-> 0, den |-> 1]
IntBins(n) == [ty |-> "int", num |-> n, den |-> 1]
FloatBins(n, d) == [ty |-> "float", num |-> n, den |-> d]

NonePercentiles == [none |-> TRUE, l |-> <<>>]
ListPercentiles(l) == [none |-> FALSE, l |-> l]

NoneColumns == [none |-> TRUE, l |-> <<>>]
ListColumns(l) == [none |-> FALSE, l |-> l]

BoolAscending(b) == [ty |-> "bool", b |-> b, l |-> <<>>]
ListAscending(l) == [ty |-> "list", b |-> TRUE, l |-> l]

NoDesc == [count |-> 0, minimum |-> NULL, maximum |-> NULL, p25 |-> NULL, p75 |-> NULL]

\* op and its arguments; then error ("" when the call returned), the
\* statements executed on the connection in order, the cursors a bin-count
\* call opened on it, the description the call read, the value num_bins returned (<<>> when it was not evaluated), the
\* bins of the bin query (0 when none ran), the index and the result
NoCall ==
    [op |-> "", column |-> "", bins |-> NoneBins, desc |-> NoDesc,
     cols |-> NoneColumns, percentiles |-> NonePercentiles, type_ |-> "",
     by |-> <<>>, ascending |-> BoolAscending(TRUE), row |-> <<>>,
     check_existence |-> FALSE,
     error |-> "", stmts |-> <<>>, cursors |-> 0, rowcount |-> 0, fd |-> <<>>,
     bins_used |-> 0,
     index |-> <<>>, result |-> <<>>]

----------------------------------------------------------------------------
(* Table._process_columns and Table.__getitem__.                           *)

\* the names in column_names that the catalog does not have
UnknownColumns(names) == {n \in Range(names) : ~Contains(AllColumnNames, n)}

\* self.columns: the Column objects of all_columns whose name is selected
ProcessColumns(names) == FilterSeq(AllColumnNames, Range(names))

\* Table.numeric_columns
NumericColumnsMutant(names) == names
NumericColumns(names) ==
    FilterSeq(names, {n \in Range(names) : AllColumnDataTypes[n] \in numeric_datatypes})

\* Column.is_numeric
IsNumeric(name) == AllColumnDataTypes[name] \in numeric_datatypes

\* the lists a Table is selected with
Selections == {<<"x", "y">>, <<"x">>, <<"y">>, <<"y", "x">>, <<"x", "z">>}

\* table[[names]]: Table.from_table(self, columns=names) builds a new Table
\* with check_existence off; its constructor reads the column metadata
GetItem(names) ==
    /\ call = NoCall
    /\ IF UnknownColumns(names) # {}
       THEN /\ call' = [NoCall EXCEPT !.op = "getitem", !.cols = ListColumns(names),
                            !.stmts = <<"metadata">>, !.error = "NoSuchColumnError"]
            /\ UNCHANGED <<column_names, columns, obj>>
       ELSE /\ call' = [NoCall EXCEPT !.op = "getitem", !.cols = ListColumns(names),
                            !.stmts = <<"metadata">>]
            /\ column_names' = names
            /\ columns' = ProcessColumns(names)
            /\ obj' = NewTable(AllColumnNames, 1)
    /\ UNCHANGED <<rows, db>>

----------------------------------------------------------------------------
(* Table.insert(row) with columns=None and a list row.                     *)

\* the cells of a row in the order of the insert's columns
RowList(r, names) == [i \in 1..Len(names) |-> r[names[i]]]

Insert(r) ==
    /\ call = NoCall
    /\ Len(rows) < MaxRows
    /\ LET cols == column_names
           row  == RowList(r, cols)
           new  == [c \in {"x", "y"} |-> IF Contains(cols, c) THEN r[c] ELSE NULL]
       IN  /\ rows' = Append(rows, new)
           /\ db' = Uncommitted(db, rows)
           /\ call' = [NoCall EXCEPT !.op = "insert", !.row = row,
                           !.stmts = <<"insert">>, !.rowcount = 1,
                           !.result = <<TRUE>>]
    /\ UNCHANGED <<column_names, columns, obj>>

----------------------------------------------------------------------------
(* Column._get_describe_query and the describe statement.                  *)

\* the values of type_ the calls are given
Types == {"continuous", "discrete", "Discrete", "bogus"}

\* str.lower() on those values
Lower(s) == IF s = "Discrete" THEN "discrete" ELSE s

TypeAccepted(type_) == Lower(type_) \in {"continuous", "discrete"}

\* float("{0:.2f}".format(p)): p in thousandths, the result in hundredths
\* (no percentile of the model lies halfway between two hundredths)
Round2(p) == (p + 5) \div 10

\* int(100 * p) of the index labels, p in thousandths
IntOf100(p) == IF p >= 0 THEN p \div 10 ELSE 0 - ((0 - p) \div 10)

\* percentiles = [0.25, 0.5, 0.75] when None; an empty argument is []
DefaultPercentiles(arg) == IF arg.none THEN <<250, 500, 750>> ELSE arg.l

\* any([x < 0 or x > 1 for x in percentiles])
OutOfRange(l) == \E i \in 1..Len(l) : l[i] < 0 \/ l[i] > 1000

RECURSIVE RoundPositive(_)
RoundPositive(l) ==
    IF l = <<>> THEN <<>>
    ELSE IF Head(l) > 0 THEN <<Round2(Head(l))>> \o RoundPositive(Tail(l))
    ELSE RoundPositive(Tail(l))

\* sorted([float("{0:.2f}".format(p)) for p in percentiles if p > 0])
QueryPercentiles(l) == Sorted(RoundPositive(l))

Query(err, isNone, name, pcts, suffix) ==
    [error |-> err, none |-> isNone, column |-> name, percentiles |-> pcts,
     suffix |-> suffix]

\* Column._get_describe_query(percentiles, type_) of the Column `name`
GetDescribeQuery(name, l, type_) ==
    IF ~TypeAccepted(type_) THEN Query("ValueError", FALSE, name, <<>>, "")
    ELSE IF ~IsNumeric(name) THEN Query("", TRUE, name, <<>>, "")
    ELSE IF OutOfRange(l) THEN Query("ValueError", FALSE, name, <<>>, "")
    ELSE Query("", FALSE, name, QueryPercentiles(l),
               IF Lower(type_) = "continuous" THEN "cont" ELSE "desc")

\* one statistic of a described column: its kind, its percentile (in
\* hundredths, 0 for the others) and its value, a cell in hundredths (the
\* count is a plain number).  The values of mean and std_dev are left out:
\* no operation reads them.
Stat(s, p, v) == [stat |-> s, p |-> p, v |-> v]

\* percentile_cont(p) within group (order by col), vs sorted and not empty
PercentileCont(vs, p) ==
    LET pos == p * (Len(vs) - 1)
        k   == pos \div 100
        f   == pos % 100
    IN  100 * vs[k + 1] + (IF f = 0 THEN 0 ELSE f * (vs[k + 2] - vs[k + 1]))

\* percentile_disc(p) within group (order by col), vs sorted and not empty
PercentileDisc(vs, p) ==
    LET k == (p * Len(vs) + 99) \div 100
    IN  100 * vs[IF k = 0 THEN 1 ELSE k]

\* the row the describe statement returns for one column, without the
\* column's name: count, avg, stddev, min, the percentiles, max
DescribeColumn(rs, name, pcts, suffix) ==
    LET vs == Sorted(NonNull(rs, name))
        n  == Len(vs)
        pct(p) == IF n = 0 THEN NULL
                  ELSE IF suffix = "cont" THEN <<PercentileCont(vs, p)>>
                  ELSE <<PercentileDisc(vs, p)>>
    IN  << Stat("count", 0, <<n>>), Stat("mean", 0, NULL), Stat("std_dev", 0, NULL),
           Stat("minimum", 0, IF n = 0 THEN NULL ELSE <<100 * vs[1]>>) >>
        \o [i \in 1..Len(pcts) |-> Stat("percentile", pcts[i], pct(pcts[i]))]
        \o << Stat("maximum", 0, IF n = 0 THEN NULL ELSE <<100 * vs[n]>>) >>

\* ["count", "mean", "std_dev", "minimum"] + ["{}%".format(n) ...] + ["maximum"]
Index(ns) ==
    << <<"count">>, <<"mean">>, <<"std_dev">>, <<"minimum">> >>
    \o [i \in 1..Len(ns) |-> <<"%", ns[i]>>] \o << <<"maximum">> >>

\* the index Table.describe and Column.describe of table.py and
\* column/base.py build: from the percentiles as they were given
DescribeIndex(l) == Index([i \in 1..Len(l) |-> IntOf100(l[i])])

\* what a call did: how it ended, the statements it executed, the index and
\* the result
Outcome(err, stmts, index, result) ==
    [error |-> err, stmts |-> stmts, index |-> index, result |-> result]

\* Table._get_column_by_name over a list of names: "" when every name is
\* found, else the error of the first that is not
RECURSIVE LookupError(_)
LookupError(names) ==
    IF names = <<>> THEN ""
    ELSE IF ~Contains(column_names, Head(names)) THEN "ValueError"
    ELSE IF IndexOf(column_names, Head(names)) > Len(columns) THEN "IndexError"
    ELSE LookupError(Tail(names))

\* self.columns[self.column_names.index(name)]
GetColumnByName(name) == columns[IndexOf(column_names, name)]

RECURSIVE Subqueries(_)
Subqueries(qs) ==
    IF qs = <<>> THEN <<>>
    ELSE IF Head(qs).none THEN Subqueries(Tail(qs))
    ELSE <<Head(qs)>> \o Subqueries(Tail(qs))

\* result[row[0]] = row[1:] over the fetched rows, read at one column: the
\* values of the last row of that name, <<>> when there is none (a column of
\* NaN in the frame)
RECURSIVE FrameColumn(_, _)
FrameColumn(fetched, name) ==
    IF fetched = <<>> THEN <<>>
    ELSE IF fetched[Len(fetched)].column = name THEN fetched[Len(fetched)].values
    ELSE FrameColumn(SubSeq(fetched, 1, Len(fetched) - 1), name)

\* Table.describe(columns, percentiles, type_) of table.py
TableDescribe(cols, pcts, type_) ==
    LET names   == IF cols.none THEN NumericColumns(column_names) ELSE cols.l
        l       == DefaultPercentiles(pcts)
        found   == LookupError(names)
        qs      == [i \in 1..Len(names) |-> GetDescribeQuery(GetColumnByName(names[i]), l, type_)]
        subs    == Subqueries(qs)
        fetched == [i \in 1..Len(subs) |->
                       [column |-> subs[i].column,
                        values |-> DescribeColumn(rows, subs[i].column, subs[i].percentiles,
                                                  subs[i].suffix)]]
        index   == DescribeIndex(l)
        frame   == [i \in 1..Len(names) |->
                       [column |-> names[i], values |-> FrameColumn(fetched, names[i])]]
    IN  IF found # "" THEN Outcome(found, <<>>, <<>>, <<>>)
        ELSE IF \E i \in 1..Len(qs) : qs[i].error # ""
        THEN Outcome("ValueError", <<>>, <<>>, <<>>)
        ELSE IF subs = <<>> THEN Outcome("ProgrammingError", <<"describe">>, <<>>, <<>>)
        ELSE IF \E i \in 1..Len(frame) :
                    frame[i].values # <<>> /\ Len(frame[i].values) # Len(index)
        THEN Outcome("ValueError", <<"describe">>, <<>>, <<>>)
        ELSE Outcome("", <<"describe">>, index, frame)

\* Column.describe(percentiles, type_) of the Column table[name]
ColumnDescribe(name, pcts, type_) ==
    LET l     == IF pcts.none THEN <<250, 500, 750>> ELSE pcts.l
        q     == GetDescribeQuery(name, l, type_)
        index == DescribeIndex(l)
        vals  == DescribeColumn(rows, name, q.percentiles, q.suffix)
    IN  IF q.error # "" THEN Outcome(q.error, <<>>, <<>>, <<>>)
        ELSE IF q.none THEN Outcome("TypeError", <<>>, <<>>, <<>>)
        ELSE IF Len(vals) # Len(index) THEN Outcome("ValueError", <<"describe">>, <<>>, <<>>)
        ELSE Outcome("", <<"describe">>, index, <<[column |-> name, values |-> vals]>>)

\* the arguments the describe calls are given
PercentileArgs ==
    {NonePercentiles, ListPercentiles(<<>>), ListPercentiles(<<250, 750>>),
     ListPercentiles(<<750, 250>>), ListPercentiles(<<0, 500>>),
     ListPercentiles(<<256>>), ListPercentiles(<<500, 1200>>)}

ColumnArgs == {NoneColumns, ListColumns(<<"x">>), ListColumns(<<"y">>)}

Finish(c, out) ==
    [c EXCEPT !.error = out.error, !.stmts = out.stmts, !.index = out.index,
              !.result = out.result]

Describe(cols, pcts, type_) ==
    /\ call = NoCall
    /\ call' = Finish([NoCall EXCEPT !.op = "describe", !.cols = cols,
                           !.percentiles = pcts, !.type_ = type_],
                      TableDescribe(cols, pcts, type_))
    /\ UNCHANGED <<rows, column_names, columns, db, obj>>

DescribeOfColumn(name, pcts, type_) ==
    /\ call = NoCall
    /\ Contains(column_names, name)
    /\ call' = Finish([NoCall EXCEPT !.op = "column.describe", !.column = name,
                           !.percentiles = pcts, !.type_ = type_],
                      ColumnDescribe(name, pcts, type_))
    /\ UNCHANGED <<rows, column_names, columns, db, obj>>

----------------------------------------------------------------------------
(* freedman_diaconis.num_bins.                                             *)

\* math.ceil(math.sqrt(c))
RECURSIVE CeilSqrtFrom(_, _)
CeilSqrtFrom(c, k) == IF k * k >= c THEN k ELSE CeilSqrtFrom(c, k + 1)
CeilSqrt(c) == CeilSqrtFrom(c, 0)

Abs(a) == IF a < 0 THEN 0 - a ELSE a

\* the least k with (k * d)^3 >= n^3 * c, for n >= 0, d > 0
RECURSIVE LeastFrom(_, _, _, _)
LeastFrom(n, d, c, k) ==
    IF (k * d) * (k * d) * (k * d) >= n * n * n * c THEN k
    ELSE LeastFrom(n, d, c, k + 1)

\* the greatest k with (k * d)^3 <= n^3 * c, for n >= 0, d > 0
RECURSIVE GreatestFrom(_, _, _, _)
GreatestFrom(n, d, c, k) ==
    IF ((k + 1) * d) * ((k + 1) * d) * ((k + 1) * d) > n * n * n * c THEN k
    ELSE GreatestFrom(n, d, c, k + 1)

\* math.ceil(r / h) for h = d / c ** (1.0 / 3.0), d # 0: the ceiling of
\* r * c^(1/3) / d, found on the cubes after r / d is reduced
CeilOverH(r, d, c) ==
    LET g == GCD(Abs(r), Abs(d))
        n == Abs(r) \div g
        m == Abs(d) \div g
    IN  IF (r >= 0) = (d > 0) THEN LeastFrom(n, m, c, 0)
        ELSE 0 - GreatestFrom(n, m, c, 0)

Bins(err, k) == [error |-> err, value |-> k]

\* the branch of num_bins taken when h == 0, kept apart as the branch a
\* slip would most likely exchange
NumBinsFlatMutant(count) == CeilSqrtFrom(count, 1) - 1
NumBinsFlat(count) == CeilSqrt(count)

\* num_bins(table, column, desc): h = 2 * (desc["75%"] - desc["25%"]) /
\* desc["count"] ** (1.0 / 3.0)
NumBins(desc) ==
    IF desc.count = 0 THEN Bins("ValueError", 0)
    ELSE IF 2 * (desc.p75[1] - desc.p25[1]) = 0 THEN Bins("", NumBinsFlat(desc.count))
    ELSE Bins("", CeilOverH(desc.maximum[1] - desc.minimum[1],
                            2 * (desc.p75[1] - desc.p25[1]), desc.count))

----------------------------------------------------------------------------
(* bin_counts.counts and table.bins.bin_counts.                            *)

\* bins is not None and (not isinstance(bins, six.integer_types) or bins <= 0)
BinsRejectedMutant(bins) == bins.ty # "NoneType" /\ bins.num <= 0
BinsRejected(bins) == bins.ty # "NoneType" /\ (bins.ty # "int" \/ bins.num <= 0)

\* desc["count"], desc["minimum"], ... of the Series frame[column]
SeriesGet(index, values, label) == values[IndexOf(index, label)].v

DescOf(index, values) ==
    [count   |-> SeriesGet(index, values, <<"count">>)[1],
     minimum |-> SeriesGet(index, values, <<"minimum">>),
     maximum |-> SeriesGet(index, values, <<"maximum">>),
     p25     |-> SeriesGet(index, values, <<"%", 25>>),
     p75     |-> SeriesGet(index, values, <<"%", 75>>)]

\* the cap on the bins the rule may choose
MaxAutoBins == 50

\* bins = min(freedman_diaconis.num_bins(table, column, desc=desc), 50)
AutoBinsMutant(k) == k
AutoBins(k) == Min(k, MaxAutoBins)

\* bin_width = (desc["maximum"] - desc["minimum"]) / bins, a fraction
BinWidth(desc, bins) == [num |-> desc.maximum[1] - desc.minimum[1], den |-> bins]

\* The statement rendered from bin_counts.j2, without its bin numbers: for
\* each of the bins equal-width buckets from minimum on, the bucket's edges
\* (numerators over width.den, in hundredths) and the number of values in
\* it; a value equal to maximum falls in the last bucket.
BinCountsStatement(rs, column, width, bins, minimum, maximum) ==
    LET vs      == NonNull(rs, column)
        left(i) == minimum * width.den + (i - 1) * width.num
        in(v, i) == \/ /\ left(i) <= 100 * v * width.den
                       /\ 100 * v * width.den < left(i + 1)
                    \/ i = bins /\ 100 * v = maximum
    IN  [i \in 1..bins |->
            [left  |-> left(i), right |-> left(i + 1), den |-> width.den,
             count |-> Cardinality({j \in 1..Len(vs) : in(vs[j], i)})]]

CountsOutcome(err, stmts, cursors, desc, fd, used, result) ==
    [error |-> err, stmts |-> stmts, cursors |-> cursors, desc |-> desc, fd |-> fd,
     bins_used |-> used, result |-> result]

\* counts and bin_counts from the description on: the number of bins, the
\* cursor, the rendering of the statement, its execution.  A description
\* without a minimum renders a statement the database rejects.
CountsFrom(column, bins, desc, stmts) ==
    LET fd   == IF bins.ty = "NoneType" THEN NumBins(desc) ELSE Bins("", 0)
        fdv  == IF bins.ty = "NoneType" /\ fd.error = "" THEN <<fd.value>> ELSE <<>>
        n    == IF bins.ty = "NoneType" THEN AutoBins(fd.value) ELSE bins.num
        c    == Len(stmts)
        exec == Append(stmts, "bin_counts")
    IN  IF fd.error # "" THEN CountsOutcome(fd.error, stmts, c, desc, <<>>, 0, <<>>)
        ELSE IF n = 0 THEN CountsOutcome("ZeroDivisionError", stmts, c + 1, desc, fdv, 0, <<>>)
        ELSE IF desc.minimum = NULL \/ n < 0
        THEN CountsOutcome("ProgrammingError", exec, c + 1, desc, fdv, n, <<>>)
        ELSE CountsOutcome("", exec, c + 1, desc, fdv, n,
                           BinCountsStatement(rows, column, BinWidth(desc, n), n,
                                              desc.minimum[1], desc.maximum[1]))

\* counts(table, column, bins) of bin_counts/base.py on the Table object; a
\* description of NaN (no fetched row under the column's name) makes the
\* rule's ceil fail and an explicit bins render a rejected statement
CountsOf(column, bins) ==
    LET d == TableDescribe(ListColumns(<<column>>), ListPercentiles(<<250, 750>>),
                           "continuous")
        c == Len(d.stmts)
    IN  IF BinsRejected(bins) THEN CountsOutcome("ValueError", <<>>, 0, NoDesc, <<>>, 0, <<>>)
        ELSE IF ~Contains(NumericColumns(column_names), column)
        THEN CountsOutcome("ValueError", <<>>, 0, NoDesc, <<>>, 0, <<>>)
        ELSE IF d.error # "" THEN CountsOutcome(d.error, d.stmts, c, NoDesc, <<>>, 0, <<>>)
        ELSE IF d.result[1].values = <<>>
        THEN IF bins.ty = "NoneType"
             THEN CountsOutcome("ValueError", d.stmts, c, NoDesc, <<>>, 0, <<>>)
             ELSE CountsOutcome("ProgrammingError", Append(d.stmts, "bin_counts"), c + 1,
                                NoDesc, <<>>, bins.num, <<>>)
        ELSE CountsFrom(column, bins, DescOf(d.index, d.result[1].values), d.stmts)

\* Table.describe(columns, percentiles, type_) of table/base.py, on the
\* Table of all the columns that bin_counts builds
TableBaseDescribe(names, pcts, type_) ==
    LET l     == IF pcts.none THEN <<250, 500, 750>> ELSE pcts.l
        qp    == QueryPercentiles(l)
        frame == [i \in 1..Len(names) |->
                     [column |-> names[i],
                      values |-> DescribeColumn(rows, names[i], qp,
                                     IF Lower(type_) = "continuous" THEN "cont" ELSE "desc")]]
    IN  IF \E i \in 1..Len(names) : ~Contains(NumericColumns(AllColumnNames), names[i])
        THEN Outcome("ValueError", <<>>, <<>>, <<>>)
        ELSE IF ~pcts.none /\ OutOfRange(l) THEN Outcome("ValueError", <<>>, <<>>, <<>>)
        ELSE IF ~TypeAccepted(type_) THEN Outcome("ValueError", <<>>, <<>>, <<>>)
        ELSE Outcome("", <<"describe">>, Index(qp), frame)

\* Table(conn, schema, table_name) of table/base.py: _validate asks the
\* catalog whether the table exists, _process_columns reads the columns
TableBaseInit == <<"exists", "metadata">>

\* bin_counts(conn, schema, table_name, column, bins) of table/bins
BinCountsOf(column, bins) ==
    LET d == TableBaseDescribe(<<column>>, ListPercentiles(<<250, 750>>), "continuous")
        t == TableBaseInit
    IN  IF BinsRejected(bins) THEN CountsOutcome("ValueError", <<>>, 0, NoDesc, <<>>, 0, <<>>)
        ELSE IF ~Contains(NumericColumns(AllColumnNames), column)
        THEN CountsOutcome("ValueError", t, Len(t), NoDesc, <<>>, 0, <<>>)
        ELSE IF d.error # ""
        THEN CountsOutcome(d.error, t \o d.stmts, Len(t \o d.stmts), NoDesc, <<>>, 0, <<>>)
        ELSE CountsFrom(column, bins, DescOf(d.index, d.result[1].values), t \o d.stmts)

\* the arguments the bin-count calls are given
BinsArgs ==
    {NoneBins, IntBins(0), IntBins(0 - 5), FloatBins(5, 2), IntBins(1), IntBins(3),
     IntBins(51)}

ColumnNameArgs == {"x", "y", "z"}

FinishCounts(c, out) ==
    [c EXCEPT !.error = out.error, !.stmts = out.stmts, !.cursors = out.cursors,
              !.desc = out.desc, !.fd = out.fd, !.bins_used = out.bins_used, !.result = out.result]

Counts(column, bins) ==
    /\ call = NoCall
    /\ call' = FinishCounts([NoCall EXCEPT !.op = "counts", !.column = column,
                                 !.bins = bins],
                            CountsOf(column, bins))
    /\ UNCHANGED <<rows, column_names, columns, db, obj>>

BinCounts(column, bins) ==
    /\ call = NoCall
    /\ call' = FinishCounts([NoCall EXCEPT !.op = "bin_counts", !.column = column,
                                 !.bins = bins],
                            BinCountsOf(column, bins))
    /\ UNCHANGED <<rows, column_names, columns, db, obj>>

----------------------------------------------------------------------------
(* Table.sort_values(by, ascending).                                       *)

\* the place of a value in the order of its column's type
Ord(name, v) == IF AllColumnDataTypes[name] = "text" THEN TextOrd[v] ELSE v

\* a sorts before b in "order by name": NULL sorts as the greatest value
Less(name, a, b) == a # NULL /\ (b = NULL \/ Ord(name, a[1]) < Ord(name, b[1]))

\* "" if ascending[i] else " desc"
SortSuffixMutant(a) == ""
SortSuffix(a) == IF a THEN "" ELSE " desc"

\* pairs = [[by[i], "" if ascending[i] else " desc"] ...]
Pairs(by, asc) == [i \in 1..Len(by) |-> <<by[i], SortSuffix(asc[i])>>]

\* row r1 sorts strictly before row r2 under "order by" the pairs
RECURSIVE Precedes(_, _, _)
Precedes(r1, r2, pairs) ==
    IF pairs = <<>> THEN FALSE
    ELSE LET c  == Head(pairs)[1]
             up == Head(pairs)[2] = ""
             lt == IF up THEN Less(c, r1[c], r2[c]) ELSE Less(c, r2[c], r1[c])
             gt == IF up THEN Less(c, r2[c], r1[c]) ELSE Less(c, r1[c], r2[c])
         IN  IF lt THEN TRUE ELSE IF gt THEN FALSE
             ELSE Precedes(r1, r2, Tail(pairs))

\* the results the statement "select <column_names> from <table> order by
\* <pairs>" can return over the rows at the indices in S: rows the pairs do
\* not order come in any order
RECURSIVE Ordered(_, _, _, _)
Ordered(rs, names, pairs, S) ==
    IF S = {} THEN {<<>>}
    ELSE UNION { { <<RowList(rs[i], names)>> \o t :
                     t \in Ordered(rs, names, pairs, S \ {i}) } :
                 i \in {j \in S : \A k \in S : ~Precedes(rs[k], rs[j], pairs)} }

\* ascending = [ascending] * len(by) for a bool
BroadcastMutant(ascending, by) == IF ascending.ty = "bool" THEN <<ascending.b>> ELSE ascending.l
Broadcast(ascending, by) ==
    IF ascending.ty = "bool" THEN [i \in 1..Len(by) |-> ascending.b] ELSE ascending.l

\* the error sort_values ends with, "" when it returns; an empty by leaves
\* the statement ending in "order by", which the database rejects
SortValuesError(by, ascending) ==
    IF ~(Range(by) \subseteq Range(column_names)) THEN "ValueError"
    ELSE IF Len(by) # Len(Broadcast(ascending, by)) THEN "ValueError"
    ELSE IF by = <<>> THEN "DatabaseError"
    ELSE ""

\* the lists sort_values is given
ByArgs == {<<>>, <<"x">>, <<"y">>, <<"x", "y">>, <<"y", "x">>, <<"x", "z">>}

AscendingArgs ==
    {BoolAscending(TRUE), BoolAscending(FALSE), ListAscending(<<FALSE>>),
     ListAscending(<<TRUE, FALSE>>), ListAscending(<<FALSE, TRUE>>),
     ListAscending(<<TRUE, TRUE, FALSE>>)}

SortValues(by, ascending) ==
    /\ call = NoCall
    /\ LET err == SortValuesError(by, ascending)
           c   == [NoCall EXCEPT !.op = "sort_values", !.by = by, !.ascending = ascending]
       IN  IF err = "ValueError" THEN call' = [c EXCEPT !.error = err]
           ELSE IF err # "" THEN call' = [c EXCEPT !.error = err, !.stmts = <<"select">>]
           ELSE \E res \in Ordered(rows, column_names, Pairs(by, Broadcast(ascending, by)),
                                   1..Len(rows)) :
                    call' = [c EXCEPT !.stmts = <<"select">>, !.result = res]
    /\ UNCHANGED <<rows, column_names, columns, db, obj>>

----------------------------------------------------------------------------

Init ==
    /\ rows \in InitialTables
    /\ column_names = AllColumnNames
    /\ columns = ProcessColumns(AllColumnNames)
    /\ call = NoCall
    /\ db = Catalog(AllColumnNames)
    /\ obj = NewTable(AllColumnNames, 1)

\* the caller takes the outcome of the call
Return ==
    /\ call # NoCall
    /\ call' = NoCall
    /\ UNCHANGED <<rows, column_names, columns, db, obj>>

Next ==
    \/ \E names \in Selections : GetItem(names)
    \/ \E r \in InsertRows : Insert(r)
    \/ \E cols \in ColumnArgs, pcts \in PercentileArgs, type_ \in Types :
           Describe(cols, pcts, type_)
    \/ \E name \in Range(AllColumnNames), pcts \in PercentileArgs, type_ \in Types :
           DescribeOfColumn(name, pcts, type_)
    \/ \E column \in ColumnNameArgs, bins \in BinsArgs : Counts(column, bins)
    \/ \E column \in ColumnNameArgs, bins \in BinsArgs : BinCounts(column, bins)
    \/ \E by \in ByArgs, ascending \in AscendingArgs : SortValues(by, ascending)
    \/ Return

Spec == Init /\ [][Next]_vars

----------------------------------------------------------------------------
(* num_bins as a function of the description it is given.                  *)

\* the descriptions: a count, and a minimum, maximum, 25% and 75% each
\* among the values up to MaxDescValue
Descriptions ==
    [count : 0..MaxDescCount,
     minimum : {<<v>> : v \in 0..MaxDescValue}, maximum : {<<v>> : v \in 0..MaxDescValue},
     p25 : {<<v>> : v \in 0..MaxDescValue}, p75 : {<<v>> : v \in 0..MaxDescValue}]

InitFD ==
    /\ rows = EmptyTable
    /\ column_names = AllColumnNames
    /\ columns = ProcessColumns(AllColumnNames)
    /\ call \in {[NoCall EXCEPT !.op = "num_bins", !.desc = d] : d \in Descriptions}
    /\ db = Catalog(AllColumnNames)
    /\ obj = NewTable(AllColumnNames, 1)

\* num_bins(table, column, desc=desc)
NumBinsCall ==
    /\ call.op = "num_bins" /\ call.error = "" /\ call.fd = <<>>
    /\ LET out == NumBins(call.desc)
       IN  call' = [call EXCEPT !.error = out.error,
                                !.fd = IF out.error = "" THEN <<out.value>> ELSE <<>>]
    /\ UNCHANGED <<rows, column_names, columns, db, obj>>

NextFD == NumBinsCall

SpecFD == InitFD /\ [][NextFD]_vars

----------------------------------------------------------------------------
(* Table.insert(row, columns) with every kind of row and columns.          *)

\* the label 0 that a Series built without an index gives its first item,
\* and the label 1 of its second
Label0 == "#0"
Label1 == "#1"

\* bool(x) of a column name or a label
Truthy(k) == k # Label0 /\ k # ""

\* any(l) of a list of names or labels
AnyOf(l) == \E i \in 1..Len(l) : Truthy(l[i])

\* a row: a list, or a Series with its index; vals are the cells and types
\* the Python types of the values ("int", "str", "NoneType")
ListRow(vals, types) == [series |-> FALSE, index |-> <<>>, vals |-> vals, types |-> types]
SeriesRow(index, vals, types) ==
    [series |-> TRUE, index |-> index, vals |-> vals, types |-> types]

\* [x for x in s if x not in among]
NotAmongMutant(s, among) == <<>>
NotAmong(s, among) == FilterSeq(s, {e \in Range(s) : e \notin Range(among)})

\* columns = [c for c in columns if c in row.index], for a Series
RestrictToIndexMutant(given, row) == given
RestrictToIndex(given, row) ==
    IF row.series THEN FilterSeq(given, Range(row.index)) ELSE given

\* the error of insert's validation ("" when it passes)
InsertError(row, cols) ==
    LET given == IF cols.none THEN column_names ELSE cols.l
    IN  IF ~cols.none /\ AnyOf(NotAmong(given, column_names)) THEN "ValueError"
        ELSE IF row.series /\ AnyOf(NotAmong(row.index, given)) THEN "ValueError"
        ELSE IF Len(RestrictToIndex(given, row)) # Len(row.vals) THEN "ValueError"
        ELSE ""

\* str(v) of the integers the rows hold, as the database writes them into a
\* text column and a CSV file holds them
IntText == [v \in 0..9 |-> <<"0", "1", "2", "3", "4", "5", "6", "7", "8", "9">>[v + 1]]

\* the cell the database stores in column name for a parameter of the given
\* Python type; a string given to an integer column is not accepted
Accepted(name, type) ==
    type = "NoneType" \/ AllColumnDataTypes[name] # "integer" \/ type = "int"

Stored(name, cell, type) ==
    IF type = "NoneType" THEN NULL
    ELSE IF AllColumnDataTypes[name] # "integer" /\ type = "int"
         THEN <<IntText[cell[1]]>>
         ELSE cell

\* "insert into <table> (<target>) values (%s, ...)" with the row's values
\* as parameters, in the order of the row: the error of the database ("" when
\* it accepts the statement) and the row it stores
InsertStatement(target, row) ==
    LET stored == [c \in Range(AllColumnNames) |->
                      IF Contains(target, c)
                      THEN Stored(c, row.vals[IndexOf(target, c)],
                                  row.types[IndexOf(target, c)])
                      ELSE NULL]
    IN  IF target = <<>> \/ Cardinality(Range(target)) # Len(target)
        THEN [error |-> "ProgrammingError", row |-> <<>>]
        ELSE IF \E i \in 1..Len(target) : ~Accepted(target[i], row.types[i])
        THEN [error |-> "DataError", row |-> <<>>]
        ELSE [error |-> "", row |-> stored]

\* cur.rowcount of the insert: 1, or 0 when a rule or trigger of the table
\* suppresses the row
RowCounts == {0, 1}

\* the rows and the columns insert is given
InsertRowArgs ==
    <<ListRow(<< <<1>>, <<"a">> >>, <<"int", "str">>),
     ListRow(<< <<1>> >>, <<"int">>),
     ListRow(<< <<"a">>, <<1>> >>, <<"str", "int">>),
     ListRow(<< NULL, <<"a">> >>, <<"NoneType", "str">>),
     ListRow(<<>>, <<>>),
     SeriesRow(<<"x", "y">>, << <<1>>, <<"a">> >>, <<"int", "str">>),
     SeriesRow(<<"y", "x">>, << <<"a">>, <<1>> >>, <<"str", "int">>),
     SeriesRow(<<"x">>, << <<1>> >>, <<"int">>),
     SeriesRow(<<"x", "z">>, << <<1>>, <<5>> >>, <<"int", "int">>),
     SeriesRow(<<Label0>>, << <<1>> >>, <<"int">>),
     SeriesRow(<<Label0, Label1>>, << <<1>>, <<"a">> >>, <<"int", "str">>)>>

InsertColumnArgs ==
    {NoneColumns, ListColumns(<<>>), ListColumns(<<"x">>), ListColumns(<<"x", "y">>),
     ListColumns(<<"y", "x">>), ListColumns(<<"x", "z">>)}

\* the row the caller hands to insert, by column name
Intended(row, target) ==
    [c \in Range(AllColumnNames) |->
        IF row.series
        THEN IF Contains(row.index, c) THEN row.vals[IndexOf(row.index, c)] ELSE NULL
        ELSE IF Contains(target, c) THEN row.vals[IndexOf(target, c)] ELSE NULL]

\* Table.insert(row, columns).  A statement the database rejects leaves the
\* rows as they were.  obj.inserted keeps the rows handed to the object's
\* insert methods that were inserted.
InsertInto(row, cols) ==
    /\ call = NoCall
    /\ LET err    == InsertError(row, cols)
           given  == IF cols.none THEN column_names ELSE cols.l
           target == RestrictToIndex(given, row)
           c      == [NoCall EXCEPT !.op = "insert", !.row = row, !.cols = cols]
           out    == InsertStatement(target, row)
       IN  IF err # "" THEN call' = [c EXCEPT !.error = err] /\ UNCHANGED <<rows, db, obj>>
           ELSE IF out.error # ""
           THEN /\ call' = [c EXCEPT !.error = out.error, !.stmts = <<"insert">>]
                /\ UNCHANGED <<rows, db, obj>>
           ELSE \E affected \in RowCounts :
                    /\ call' = [c EXCEPT !.stmts = <<"insert">>, !.rowcount = affected,
                                         !.result = <<affected # 0>>]
                    /\ rows' = IF affected = 1 THEN Append(rows, out.row) ELSE rows
                    /\ db' = IF affected = 1 THEN Uncommitted(db, rows) ELSE db
                    /\ obj' = IF affected = 1
                              THEN [obj EXCEPT !.inserted = Append(@, Intended(row, target))]
                              ELSE obj
    /\ UNCHANGED <<column_names, columns>>

\* a Table created empty, as test9_insert.py creates it, or a selection of it
InitInsert ==
    /\ rows = EmptyTable
    /\ column_names \in {<<"x", "y">>, <<"x">>, <<"y", "x">>}
    /\ columns = ProcessColumns(column_names)
    /\ call = NoCall
    /\ db = Catalog(AllColumnNames)
    /\ obj = NewTable(AllColumnNames, 1)

NextInsert ==
    \/ \E i \in 1..Len(InsertRowArgs), cols \in InsertColumnArgs :
           Len(rows) < MaxRows /\ InsertInto(InsertRowArgs[i], cols)
    \/ Return

SpecInsert == InitInsert /\ [][NextInsert]_vars

----------------------------------------------------------------------------
(* count, head, insert_csv and insert_dataframe.                           *)

\* Table.count, a LazyProperty: the query runs when no count is cached
Count ==
    /\ call = NoCall
    /\ IF obj.count # <<>>
       THEN call' = [NoCall EXCEPT !.op = "count", !.result = obj.count] /\ UNCHANGED obj
       ELSE IF ~db.exists
       THEN /\ call' = [NoCall EXCEPT !.op = "count", !.stmts = <<"count">>,
                            !.error = "ProgrammingError"]
            /\ UNCHANGED obj
       ELSE /\ call' = [NoCall EXCEPT !.op = "count", !.stmts = <<"count">>,
                            !.result = <<Len(rows)>>]
            /\ obj' = [obj EXCEPT !.count = <<Len(rows)>>]
    /\ UNCHANGED <<rows, column_names, columns, db>>

\* delattr(t, "_count")
ClearCount ==
    /\ call = NoCall
    /\ obj.count # <<>>
    /\ obj' = [obj EXCEPT !.count = <<>>]
    /\ UNCHANGED <<rows, column_names, columns, call, db>>

\* the default num_rows of head, and the num_rows "all" (no limit)
DefaultNumRows == 10
AllRows == -1

HeadArgs == {DefaultNumRows, AllRows, 0, 2}

\* Table.head(num_rows): the first num_rows rows of the selected columns
TableHead(num_rows) ==
    /\ call = NoCall
    /\ LET c == [NoCall EXCEPT !.op = "head", !.bins_used = num_rows]
           n == IF num_rows = AllRows THEN Len(rows) ELSE Min(num_rows, Len(rows))
       IN  IF num_rows <= 0 /\ num_rows # AllRows
           THEN call' = [c EXCEPT !.error = "ValueError"]
           ELSE call' = [c EXCEPT !.stmts = <<"select">>,
                            !.result = <<[i \in 1..n |->
                                [name \in Range(column_names) |-> rows[i][name]]]>>]
    /\ UNCHANGED <<rows, column_names, columns, db, obj>>

\* a DataFrame: its columns, the dtype of each and its rows
DataFrame(names, dtypes, data) == [columns |-> names, dtypes |-> dtypes, data |-> data]

\* data_frame.to_csv(f, index=False): the header and, for each row, its
\* fields; a missing value is written as na_rep (""), and so is an empty
\* string, which the writer does not quote
ToCsv(df) ==
    [header |-> df.columns,
     lines  |-> [i \in 1..Len(df.data) |-> [j \in 1..Len(df.columns) |->
                    LET cell == df.data[i][j]
                    IN  IF cell = NULL THEN ""
                        ELSE IF df.dtypes[j] = "int" THEN IntText[cell[1]]
                        ELSE cell[1]]]]

\* the cell "copy ... null '' csv" reads from a field into column name
\* (<<"DataError">> for text that is no integer, read into an integer column)
FromField(name, field) ==
    IF field = "" THEN [ok |-> TRUE, cell |-> NULL]
    ELSE IF AllColumnDataTypes[name] = "integer"
         THEN IF \E v \in DOMAIN IntText : IntText[v] = field
              THEN [ok |-> TRUE, cell |-> <<CHOOSE v \in DOMAIN IntText : IntText[v] = field>>]
              ELSE [ok |-> FALSE, cell |-> NULL]
         ELSE [ok |-> TRUE, cell |-> <<field>>]

\* "copy <table> from stdin delimiter ',' null '' csv header": the header
\* line is skipped and the fields of every line go to the table's columns in
\* the table's order
CopyFrom(file) ==
    LET target == AllColumnNames
        ok == \A i \in 1..Len(file.lines) :
                  /\ Len(file.lines[i]) = Len(target)
                  /\ \A j \in 1..Len(target) : FromField(target[j], file.lines[i][j]).ok
    IN  IF ok
        THEN [error |-> "",
              rows  |-> [i \in 1..Len(file.lines) |->
                           [c \in Range(target) |->
                               FromField(c, file.lines[i][IndexOf(target, c)]).cell]]]
        ELSE [error |-> "DataError", rows |-> <<>>]

\* the file of test_insert_csv, and a file with an empty field
CsvFiles ==
    {[header |-> <<"x", "y">>, lines |-> << <<"2", "b">>, <<"3", "c">> >>],
     [header |-> <<"x", "y">>, lines |-> << <<"4", "">> >>]}

\* frames as test_insert_dataframe's, with a missing value, with an empty
\* string, and with its columns in another order than the table's
DataFrames ==
    <<DataFrame(<<"x", "y">>, <<"int", "str">>, << << <<5>>, <<"e">> >>, << <<6>>, <<"f">> >> >>),
      DataFrame(<<"x", "y">>, <<"int", "str">>, << << <<7>>, NULL >> >>),
      DataFrame(<<"x", "y">>, <<"int", "str">>, << << <<8>>, <<"">> >> >>),
      DataFrame(<<"y", "x">>, <<"str", "int">>, << << <<"g">>, <<9>> >> >>)>>

\* the copy of insert_csv and its commit; given are the rows handed over
Load(op, file, given) ==
    /\ call = NoCall
    /\ LET out == CopyFrom(file)
       IN  IF out.error # ""
           THEN /\ call' = [NoCall EXCEPT !.op = op, !.error = out.error,
                                !.stmts = <<"copy">>]
                /\ UNCHANGED <<rows, db, obj>>
           ELSE /\ call' = [NoCall EXCEPT !.op = op, !.stmts = <<"copy", "commit">>]
                /\ rows' = rows \o out.rows
                /\ db' = Committed(db)
                /\ obj' = [obj EXCEPT !.inserted = @ \o given]
    /\ UNCHANGED <<column_names, columns>>

\* Table.insert_csv(file_name)
InsertCsv(file) == Load("insert_csv", file, CopyFrom(file).rows)

\* Table.insert_dataframe(data_frame)
InsertDataframe(df) ==
    Load("insert_dataframe", ToCsv(df),
         [i \in 1..Len(df.data) |->
             [c \in Range(df.columns) |-> df.data[i][IndexOf(df.columns, c)]]])

\* the Table of test9_insert.py, created empty
InitLoad ==
    /\ rows = EmptyTable
    /\ column_names = AllColumnNames
    /\ columns = ProcessColumns(column_names)
    /\ call = NoCall
    /\ db = Catalog(AllColumnNames)
    /\ obj = NewTable(AllColumnNames, 1)

NextLoad ==
    \/ Len(rows) < MaxRows /\ InsertInto(InsertRowArgs[1], NoneColumns)
    \/ \E file \in CsvFiles :
           Len(rows) + Len(file.lines) <= MaxRows /\ InsertCsv(file)
    \/ \E i \in 1..Len(DataFrames) :
           Len(rows) + Len(DataFrames[i].data) <= MaxRows /\ InsertDataframe(DataFrames[i])
    \/ Count
    \/ ClearCount
    \/ \E n \in HeadArgs : TableHead(n)
    \/ Return

SpecLoad == InitLoad /\ [][NextLoad]_vars

----------------------------------------------------------------------------
(* Construction, create, drop and exists.                                  *)

\* Table._all_column_metadata, a LazyProperty: the catalog is read when the
\* object holds no metadata yet
AllColumnMetadataMutant(o, catalog) ==
    [o EXCEPT !.metadata = <<catalog.columns>>, !.fetches = @ + 1]
AllColumnMetadata(o, catalog) ==
    IF o.metadata # <<>> THEN o
    ELSE [o EXCEPT !.metadata = <<catalog.columns>>, !.fetches = @ + 1]

\* Table._all_column_names and Table._all_column_data_types of an object
\* that holds its metadata
AllNames(o) == [i \in 1..Len(o.metadata[1]) |-> o.metadata[1][i].column_name]
AllTypes(o) == [i \in 1..Len(o.metadata[1]) |-> o.metadata[1][i].data_type]

\* Table._validate: the table is required to exist and does not
ValidateMutant(catalog, ce) == ~catalog.exists
Validate(catalog, ce) == ce /\ ~catalog.exists

\* Table.__init__(table_name, columns=cols, check_existence=ce) against a
\* catalog: _validate, then _process_columns, which reads
\* _all_column_metadata twice
Constructed(catalog, cols, ce) ==
    LET checked == IF ce THEN <<"exists">> ELSE <<>>
        o       == AllColumnMetadata(AllColumnMetadata(FreshTable, catalog), catalog)
        read    == [i \in 1..o.fetches |-> "metadata"]
        names   == IF cols.none THEN AllNames(o) ELSE cols.l
    IN  IF Validate(catalog, ce)
        THEN [error |-> "TableDoesNotExistError", stmts |-> checked, obj |-> o,
              names |-> <<>>]
        ELSE IF NotAmong(names, AllNames(o)) # <<>>
        THEN [error |-> "NoSuchColumnError", stmts |-> checked \o read, obj |-> o,
              names |-> <<>>]
        ELSE [error |-> "", stmts |-> checked \o read, obj |-> o, names |-> names]

\* a constructor call: the model follows the object it returns
Construct(op, cols, ce) ==
    /\ call = NoCall
    /\ LET out == Constructed(db, cols, ce)
           c   == [NoCall EXCEPT !.op = op, !.cols = cols, !.check_existence = ce,
                       !.error = out.error, !.stmts = out.stmts]
       IN  /\ call' = c
           /\ IF out.error # "" THEN UNCHANGED <<column_names, columns, obj>>
              ELSE /\ obj' = out.obj
                   /\ column_names' = out.names
                   /\ columns' = FilterSeq(AllNames(out.obj), Range(out.names))
    /\ UNCHANGED <<rows, db>>

\* Table(table_name, columns=cols, check_existence=ce)
TableInit(cols, ce) == Construct("Table", cols, ce)

\* table[[names]]: Table.from_table(self, columns=names), which does not
\* check existence
GetItemList(names) == Construct("getitem", ListColumns(names), FALSE)

\* table[name] for a string
GetItemName(name) ==
    /\ call = NoCall
    /\ call' = IF Contains(column_names, name)
               THEN [NoCall EXCEPT !.op = "getitem", !.column = name, !.result = <<name>>]
               ELSE [NoCall EXCEPT !.op = "getitem", !.column = name, !.error = "KeyError"]
    /\ UNCHANGED <<rows, column_names, columns, db, obj>>

\* the create statements: the table of test9_insert.py, a table of one
\* column created with two rows, and a statement the database rejects
CreateStatements ==
    <<[ok |-> TRUE, columns |-> <<"x", "y">>, rows |-> <<>>],
      [ok |-> TRUE, columns |-> <<"x">>, rows |-> <<[x |-> <<1>>], [x |-> <<2>>]>>],
      [ok |-> FALSE, columns |-> <<>>, rows |-> <<>>]>>

\* what Table.create executes before it constructs the Table: drop table if
\* exists, commit, the create statement and, when the database accepted it,
\* commit
DropAndCreateMutant(stmt) == <<"create", "commit">>
DropAndCreate(stmt) ==
    <<"drop if exists", "commit", "create">> \o (IF stmt.ok THEN <<"commit">> ELSE <<>>)

\* Table.create(table_name, create_stmt), which constructs the Table without
\* the check of existence
Create(stmt) ==
    /\ call = NoCall
    /\ IF ~stmt.ok
       THEN /\ call' = [NoCall EXCEPT !.op = "create", !.error = "ProgrammingError",
                            !.stmts = DropAndCreate(stmt)]
            /\ db' = [NoTable EXCEPT !.last = "create failed"]
            /\ rows' = <<>>
            /\ UNCHANGED <<column_names, columns, obj>>
       ELSE LET new == Catalog(stmt.columns)
                out == Constructed(new, NoneColumns, FALSE)
            IN  /\ call' = [NoCall EXCEPT !.op = "create",
                                !.stmts = DropAndCreate(stmt) \o out.stmts]
                /\ db' = new
                /\ rows' = stmt.rows
                /\ obj' = out.obj
                /\ column_names' = out.names
                /\ columns' = out.names

\* table.drop(): drop table ... cascade and commit; "del self" leaves the
\* object as it is.  obj.dropped records that drop() was called on it.
DropMutant ==
    /\ call = NoCall
    /\ call' = [NoCall EXCEPT !.op = "drop", !.stmts = <<"drop", "commit">>]
    /\ obj' = [obj EXCEPT !.dropped = TRUE]
    /\ db' = [db EXCEPT !.last = "drop"]
    /\ UNCHANGED <<rows, column_names, columns>>
Drop ==
    /\ call = NoCall
    /\ IF ~db.exists
       THEN /\ call' = [NoCall EXCEPT !.op = "drop", !.stmts = <<"drop">>,
                            !.error = "ProgrammingError"]
            /\ UNCHANGED <<rows, db, obj>>
       ELSE /\ call' = [NoCall EXCEPT !.op = "drop", !.stmts = <<"drop", "commit">>]
            /\ db' = NoTable
            /\ rows' = <<>>
            /\ obj' = [obj EXCEPT !.dropped = TRUE]
    /\ UNCHANGED <<column_names, columns>>

\* Table.exists(table_name)
Exists ==
    /\ call = NoCall
    /\ call' = [NoCall EXCEPT !.op = "exists", !.stmts = <<"exists">>,
                    !.result = <<db.exists>>]
    /\ UNCHANGED <<rows, column_names, columns, db, obj>>

\* Table.shape, a LazyProperty over Table.count
Shape ==
    /\ call = NoCall
    /\ IF obj.shape # <<>>
       THEN call' = [NoCall EXCEPT !.op = "shape", !.result = obj.shape] /\ UNCHANGED obj
       ELSE IF obj.count # <<>>
       THEN /\ call' = [NoCall EXCEPT !.op = "shape",
                            !.result = << <<obj.count[1], Len(column_names)>> >>]
            /\ obj' = [obj EXCEPT !.shape = << <<obj.count[1], Len(column_names)>> >>]
       ELSE IF ~db.exists
       THEN /\ call' = [NoCall EXCEPT !.op = "shape", !.stmts = <<"count">>,
                            !.error = "ProgrammingError"]
            /\ UNCHANGED obj
       ELSE /\ call' = [NoCall EXCEPT !.op = "shape", !.stmts = <<"count">>,
                            !.result = << <<Len(rows), Len(column_names)>> >>]
            /\ obj' = [obj EXCEPT !.count = <<Len(rows)>>,
                                  !.shape = << <<Len(rows), Len(column_names)>> >>]
    /\ UNCHANGED <<rows, column_names, columns, db>>

\* Table.dtypes: pd.Series([c.dtype for c in self.columns],
\* index=self.column_names), the data type of each Column of columns from the
\* metadata, labelled by position with column_names; a Series of values and
\* an index of different lengths is a ValueError
Dtypes ==
    /\ call = NoCall
    /\ LET o == AllColumnMetadata(obj, db)
           c == [NoCall EXCEPT !.op = "dtypes",
                     !.stmts = [i \in 1..(o.fetches - obj.fetches) |-> "metadata"]]
       IN  /\ obj' = o
           /\ call' = IF Len(columns) # Len(column_names)
                      THEN [c EXCEPT !.error = "ValueError"]
                      ELSE [c EXCEPT !.result = <<[i \in 1..Len(columns) |->
                               AllTypes(o)[IndexOf(AllNames(o), columns[i])]]>>]
    /\ UNCHANGED <<rows, column_names, columns, db>>

\* the columns other sessions give the table
SchemaChanges ==
    {Metadata(<<"x">>),
     <<[column_name |-> "x", data_type |-> "text"], [column_name |-> "y", data_type |-> "text"]>>}

\* another session alters the table
AlterTable(meta) ==
    /\ call = NoCall
    /\ db.exists
    /\ db.columns # meta
    /\ db' = [db EXCEPT !.columns = meta]
    /\ UNCHANGED <<rows, column_names, columns, call, obj>>

ColumnsArgs == {NoneColumns, ListColumns(<<"x">>), ListColumns(<<"y", "x">>),
                ListColumns(<<"x", "x">>), ListColumns(<<"x", "z">>)}

\* the table of test_table_basic.py, created and constructed
InitLife ==
    /\ rows = CreateStatements[2].rows
    /\ column_names = <<"x">>
    /\ columns = <<"x">>
    /\ call = NoCall
    /\ db = Catalog(<<"x">>)
    /\ obj = NewTable(<<"x">>, 1)

NextLife ==
    \/ \E cols \in ColumnsArgs, ce \in BOOLEAN : TableInit(cols, ce)
    \/ \E cols \in ColumnsArgs : ~cols.none /\ GetItemList(cols.l)
    \/ \E name \in {"x", "y", "z"} : GetItemName(name)
    \/ \E i \in 1..Len(CreateStatements) : Create(CreateStatements[i])
    \/ Drop
    \/ Exists
    \/ Count
    \/ Shape
    \/ Dtypes
    \/ \E meta \in SchemaChanges : AlterTable(meta)
    \/ Return

SpecLife == InitLife /\ [][NextLife]_vars

\* count and shape of one Table object between its inserts and the clearing
\* of its cached count
NextShape ==
    \/ Len(rows) < MaxRows /\ InsertInto(InsertRowArgs[1], NoneColumns)
    \/ Count
    \/ Shape
    \/ ClearCount
    \/ Return

SpecShape == InitLoad /\ [][NextShape]_vars

----------------------------------------------------------------------------
(* The connection's transaction.                                           *)

\* conn.rollback(): self.connection.rollback()
Rollback ==
    /\ call = NoCall
    /\ call' = [NoCall EXCEPT !.op = "rollback", !.stmts = <<"rollback">>]
    /\ rows' = CommittedRows(db, rows)
    /\ db' = [db EXCEPT !.committed = <<>>]
    /\ UNCHANGED <<column_names, columns, obj>>

\* conn.commit()
Commit ==
    /\ call = NoCall
    /\ call' = [NoCall EXCEPT !.op = "commit", !.stmts = <<"commit">>]
    /\ db' = Committed(db)
    /\ UNCHANGED <<rows, column_names, columns, obj>>

\* inserts, loads, create and drop on one connection, between its commits
\* and rollbacks; insert and insert_csv are called while the table exists
NextTxn ==
    \/ /\ db.exists /\ Len(rows) < MaxRows /\ Len(obj.inserted) < MaxRows
       /\ InsertInto(InsertRowArgs[1], NoneColumns)
    \/ \E file \in CsvFiles :
           /\ db.exists /\ db.columns = Metadata(AllColumnNames)
           /\ Len(rows) + Len(file.lines) <= MaxRows
           /\ Len(obj.inserted) + Len(file.lines) <= MaxRows
           /\ InsertCsv(file)
    \/ \E i \in 1..Len(CreateStatements) : Create(CreateStatements[i])
    \/ Drop
    \/ Rollback
    \/ Commit
    \/ Count
    \/ ClearCount
    \/ Return

SpecTxn == InitLoad /\ [][NextTxn]_vars

----------------------------------------------------------------------------
(* Equality of Table and Column objects.                                   *)

\* how many Table objects are built
MaxObjects == 3

\* the fully-qualified names of the tables
TableNames == {"s.t", "s.u"}

\* table == other: Table defines no __eq__, so two Tables are equal when they
\* are the same object; objects are told apart by their place in obj.tables
TableEq(i, j) == i = j

\* Column.__eq__ of the Column name of the object i and the Column other of
\* the object j
ColumnEq(i, name, j, other) == name = other /\ TableEq(i, j)

\* Table(table_name, columns=names) or a selection of an object: one more
\* Table object, whose Columns have it as their parent_table
NewObject(name, names) ==
    /\ call = NoCall
    /\ Len(obj.tables) < MaxObjects
    /\ obj' = [obj EXCEPT !.tables = Append(@, [name |-> name, column_names |-> names])]
    /\ UNCHANGED <<rows, column_names, columns, call, db>>

\* tables[i] == tables[j]
CompareTables(i, j) ==
    /\ call = NoCall
    /\ call' = [NoCall EXCEPT !.op = "eq", !.index = <<i, j>>, !.result = <<TableEq(i, j)>>]
    /\ UNCHANGED <<rows, column_names, columns, db, obj>>

\* tables[i].<name> == tables[j].<other>
CompareColumns(i, name, j, other) ==
    /\ call = NoCall
    /\ Contains(obj.tables[i].column_names, name)
    /\ Contains(obj.tables[j].column_names, other)
    /\ call' = [NoCall EXCEPT !.op = "eq", !.index = <<i, j>>, !.by = <<name, other>>,
                    !.result = <<ColumnEq(i, name, j, other)>>]
    /\ UNCHANGED <<rows, column_names, columns, db, obj>>

InitEq ==
    /\ rows = EmptyTable
    /\ column_names = AllColumnNames
    /\ columns = ProcessColumns(AllColumnNames)
    /\ call = NoCall
    /\ db = Catalog(AllColumnNames)
    /\ obj = [tables |-> <<>>]

NextEq ==
    \/ \E name \in TableNames, names \in {<<"x", "y">>, <<"x">>} : NewObject(name, names)
    \/ \E i, j \in 1..Len(obj.tables) : CompareTables(i, j)
    \/ \E i, j \in 1..Len(obj.tables), name, other \in Range(AllColumnNames) :
           CompareColumns(i, name, j, other)
    \/ Return

SpecEq == InitEq /\ [][NextEq]_vars

----------------------------------------------------------------------------
(* Connection(username, password, hostname, database).                     *)

\* username, password, hostname, database
Fields == 1..4

\* an argument left out or None (NULL), the empty string and a value; an
\* environment variable not set (NULL), set to the empty string and to
\* another value
ArgValues == {NULL, <<"">>, <<"arg">>}
EnvValues == {NULL, <<"">>, <<"env">>}

\* a or b
OrElseMutant(a, b) == b
OrElse(a, b) == IF a # NULL /\ a # <<"">> THEN a ELSE b

\* Connection.__init__: the four settings, the test of them, and
\* psycopg2.connect
ConnectionInit(args, env) ==
    /\ call = NoCall
    /\ LET self == [f \in Fields |-> OrElse(args[f], env[f])]
           c    == [NoCall EXCEPT !.op = "Connection", !.row = [args |-> args, env |-> env]]
       IN  IF \E f \in Fields : self[f] = NULL \/ self[f] = <<"">>
           THEN call' = [c EXCEPT !.error = "ValueError"]
           ELSE call' = [c EXCEPT !.stmts = <<"connect">>, !.result = <<self>>]
    /\ UNCHANGED <<rows, column_names, columns, db, obj>>

InitConn ==
    /\ rows = EmptyTable
    /\ column_names = AllColumnNames
    /\ columns = ProcessColumns(AllColumnNames)
    /\ call = NoCall
    /\ db = Catalog(AllColumnNames)
    /\ obj = FreshTable

NextConn ==
    \/ \E args \in [Fields -> ArgValues], env \in [Fields -> EnvValues] :
           ConnectionInit(args, env)
    \/ Return

SpecConn == InitConn /\ [][NextConn]_vars

----------------------------------------------------------------------------
(* The decorator process_schema_and_conn of Table, Table.create and        *)
(* Table.exists.                                                           *)

\* a keyword argument: left out, or given with a value (NULL for None)
NoKw == [given |-> FALSE, v |-> NULL]
Kw(v) == [given |-> TRUE, v |-> v]

\* kwargs.setdefault(key, v)
SetDefault(kw, v) == IF kw.given THEN kw ELSE Kw(v)

\* getpass.getuser()
OsUser == "me"

\* the decorator applied to a call with table_name (the parts between its
\* dots), the keywords schema and conn, and an environment that holds the
\* four settings of a Connection or does not: Connection() is evaluated as
\* the argument of setdefault, whatever conn is.  The outcome says how many
\* Connections were constructed, whether the wrapped function was called and
\* what it received.
ProcessSchemaAndConn(parts, schema, conn, credentials) ==
    LET received(sch, name) ==
            [error |-> "", connections |-> 1, called |-> TRUE,
             schema |-> SetDefault(schema, sch).v, table_name |-> name,
             conn |-> SetDefault(conn, <<"new">>).v]
        raised(n) ==
            [error |-> "ValueError", connections |-> n, called |-> FALSE,
             schema |-> NULL, table_name |-> "", conn |-> NULL]
        given == IF schema.given THEN schema.v ELSE NULL
    IN  IF ~credentials THEN raised(0)
        ELSE IF Len(parts) = 2
        THEN IF given # NULL /\ given # <<parts[1]>> THEN raised(1)
             ELSE received(<<parts[1]>>, parts[2])
        ELSE IF Len(parts) = 1 THEN received(OrElse(given, <<OsUser>>), parts[1])
        ELSE raised(1)

\* table names: bar, foo.bar and a.b.c
TableNameArgs == {<<"bar">>, <<"foo", "bar">>, <<"a", "b", "c">>}

\* a call of the decorated f: Table(...), Table.create(...) or
\* Table.exists(...), up to the call of the wrapped function
Decorated(f, parts, schema, conn, credentials) ==
    /\ call = NoCall
    /\ LET out == ProcessSchemaAndConn(parts, schema, conn, credentials)
       IN  call' = [NoCall EXCEPT !.op = f, !.error = out.error, !.result = <<out>>,
                        !.row = [table_name |-> parts, schema |-> schema, conn |-> conn,
                                 credentials |-> credentials]]
    /\ UNCHANGED <<rows, column_names, columns, db, obj>>

NextDeco ==
    \/ \E f \in {"Table", "create", "exists"}, parts \in TableNameArgs,
          schema \in {NoKw, Kw(NULL), Kw(<<"foo">>), Kw(<<"baz">>)},
          conn \in {NoKw, Kw(NULL), Kw(<<"caller">>)}, credentials \in BOOLEAN :
           Decorated(f, parts, schema, conn, credentials)
    \/ Return

SpecDeco == InitConn /\ [][NextDeco]_vars

----------------------------------------------------------------------------
(* Column.head, Column.is_unique and Column.unique.                        *)

\* Column.head(num_rows) of the Column name: the test of num_rows raises for
\* every num_rows other than "all"
ColumnHead(name, num_rows) ==
    /\ call = NoCall
    /\ Contains(column_names, name)
    /\ LET c == [NoCall EXCEPT !.op = "column.head", !.column = name,
                     !.bins_used = num_rows]
           n == IF num_rows = AllRows THEN Len(rows) ELSE Min(num_rows, Len(rows))
       IN  IF (num_rows # AllRows /\ num_rows < 0) \/ num_rows # AllRows
           THEN call' = [c EXCEPT !.error = "ValueError"]
           ELSE call' = [c EXCEPT !.stmts = <<"select">>,
                            !.result = <<[i \in 1..n |-> rows[i][name]]>>]
    /\ UNCHANGED <<rows, column_names, columns, db, obj>>

\* the cells of a column
ColumnCells(name) == [i \in 1..Len(rows) |-> rows[i][name]]

\* select distinct: each cell once, in the order of its first row
DistinctMutant(cells) == cells
RECURSIVE Distinct(_)
Distinct(cells) ==
    IF cells = <<>> THEN <<>>
    ELSE LET front == Distinct(SubSeq(cells, 1, Len(cells) - 1))
             last  == cells[Len(cells)]
         IN  IF Contains(front, last) THEN front ELSE Append(front, last)

\* "select <column> from <table> group by 1 having count(1) > 1": the cells
\* that stand in more than one row
Repeated(cells) ==
    {cells[i] : i \in {k \in 1..Len(cells) :
                          Cardinality({j \in 1..Len(cells) : cells[j] = cells[k]}) > 1}}

\* Column.is_unique, a LazyProperty of the Column name
IsUnique(name) ==
    /\ call = NoCall
    /\ Contains(column_names, name)
    /\ IF obj.is_unique[name] # <<>>
       THEN /\ call' = [NoCall EXCEPT !.op = "is_unique", !.column = name,
                            !.result = obj.is_unique[name]]
            /\ UNCHANGED obj
       ELSE LET unique == Repeated(ColumnCells(name)) = {}
            IN  /\ call' = [NoCall EXCEPT !.op = "is_unique", !.column = name,
                                !.stmts = <<"group by">>, !.result = <<unique>>]
                /\ obj' = [obj EXCEPT !.is_unique[name] = <<unique>>]
    /\ UNCHANGED <<rows, column_names, columns, db>>

\* Column.unique() of the Column name
Unique(name) ==
    /\ call = NoCall
    /\ Contains(column_names, name)
    /\ call' = [NoCall EXCEPT !.op = "unique", !.column = name,
                    !.stmts = <<"select distinct">>,
                    !.result = <<Distinct(ColumnCells(name))>>]
    /\ UNCHANGED <<rows, column_names, columns, db, obj>>

NextColumn ==
    \/ \E r \in InsertRows : Insert(r)
    \/ \E name \in Range(AllColumnNames), n \in HeadArgs : ColumnHead(name, n)
    \/ \E n \in HeadArgs : TableHead(n)
    \/ \E name \in Range(AllColumnNames) : IsUnique(name)
    \/ \E name \in Range(AllColumnNames) : Unique(name)
    \/ Return

SpecColumn == Init /\ [][NextColumn]_vars

----------------------------------------------------------------------------
(* Properties of the calls.                                                *)

IsBinCall == call.op \in {"counts", "bin_counts"}

Executed(stmt) == \E i \in 1..Len(call.stmts) : call.stmts[i] = stmt

\* the column of the call is a numeric column of the table the call is on
NumericInTable ==
    /\ call.column \in Range(AllColumnNames)
    /\ AllColumnDataTypes[call.column] \in numeric_datatypes
    /\ call.op = "counts" => call.column \in Range(column_names)

RECURSIVE SumCounts(_)
SumCounts(t) == IF t = <<>> THEN 0 ELSE Head(t).count + SumCounts(Tail(t))

\* C1: for every numeric column with a non-null value and every explicit
\* positive integer n, the bin-count operation returns exactly n triples,
\* each right edge the next left edge, the first left edge the minimum, the
\* last right edge the maximum, and the counts summing to the number of
\* non-null values.
C1_ExplicitBinsCoverTheColumn ==
    (/\ IsBinCall /\ call.bins.ty = "int" /\ call.bins.num > 0
     /\ NumericInTable /\ NonNull(rows, call.column) # <<>>)
    => LET n  == call.bins.num
           t  == call.result
           vs == NonNull(rows, call.column)
       IN  /\ call.error = ""
           /\ Len(t) = n
           /\ \A i \in 1..(n - 1) : t[i].right = t[i + 1].left /\ t[i].den = t[i + 1].den
           /\ \A j \in 1..Len(vs) : t[1].left <= 100 * vs[j] * t[1].den
           /\ \E j \in 1..Len(vs) : t[1].left = 100 * vs[j] * t[1].den
           /\ \A j \in 1..Len(vs) : t[n].right >= 100 * vs[j] * t[n].den
           /\ \E j \in 1..Len(vs) : t[n].right = 100 * vs[j] * t[n].den
           /\ SumCounts(t) = Len(vs)

\* C2: the bin-count operation without bins on a numeric column that has no
\* non-null value fails with the ValueError of the Freedman-Diaconis rule,
\* and executes no bin-count statement.
C2_EmptyColumnIsAValueError ==
    (/\ IsBinCall /\ call.bins.ty = "NoneType"
     /\ NumericInTable /\ NonNull(rows, call.column) = <<>>)
    => call.error = "ValueError" /\ ~Executed("bin_counts")

\* C3: for a description with count > 0, num_bins returns the ceiling of
\* sqrt(count) when the 25% and 75% values are equal, and when the 75% value
\* is the greater the ceiling of (maximum - minimum) / h for
\* h = 2 * (75% - 25%) / count^(1/3): the k with
\* 2 * iqr * (k - 1) < range * count^(1/3) <= 2 * iqr * k, compared as cubes.
C3_FreedmanDiaconis ==
    (call.op = "num_bins" /\ call.desc.count > 0 /\ (call.fd # <<>> \/ call.error # ""))
    => LET c   == call.desc.count
           r   == call.desc.maximum[1] - call.desc.minimum[1]
           iqr == call.desc.p75[1] - call.desc.p25[1]
           k   == call.fd[1]
           cube(a) == a * a * a
       IN  /\ call.error = "" /\ call.fd # <<>>
           /\ iqr = 0 => k >= 1 /\ k * k >= c /\ (k - 1) * (k - 1) < c
           /\ iqr > 0 => /\ cube(2 * iqr * (k - 1)) < cube(r) * c
                         /\ cube(r) * c <= cube(2 * iqr * k)

C3_Witness ==
    /\ call.op = "num_bins" /\ call.desc.count = 3
    /\ call.desc.maximum[1] - call.desc.minimum[1] = 3
    /\ call.desc.p75[1] - call.desc.p25[1] = 1
    /\ call.fd = <<3>>

\* C4: a bin-count statement executed for a call without bins uses
\* min(Freedman-Diaconis count, 50) bins, never more than 50; executed for a
\* call with an explicit positive integer it uses exactly that number, and
\* the rule is not evaluated; a call that returns returns that many triples.
C4_AutoBinsAreCapped ==
    (IsBinCall /\ Executed("bin_counts"))
    => /\ call.bins.ty = "NoneType" =>
              /\ call.fd # <<>>
              /\ call.bins_used = (IF call.fd[1] <= 50 THEN call.fd[1] ELSE 50)
              /\ call.bins_used <= 50
       /\ call.bins.ty = "int" => call.bins_used = call.bins.num /\ call.fd = <<>>
       /\ call.error = "" => Len(call.result) = call.bins_used

C4_Witness ==
    /\ IsBinCall /\ call.bins.ty = "NoneType" /\ call.error = ""
    /\ call.fd # <<>> /\ call.fd[1] > 50 /\ Len(call.result) = 50

\* C5: a bin-count call whose explicit bins is 0, -5 or 2.5 ends in a
\* ValueError with no cursor opened and no statement executed, whatever the
\* table and the column.
C5_InvalidBinsTouchNothing ==
    (IsBinCall /\ call.bins \in {IntBins(0), IntBins(0 - 5), FloatBins(5, 2)})
    => call.error = "ValueError" /\ call.stmts = <<>> /\ call.cursors = 0

C5_Witness ==
    /\ call.op = "bin_counts" /\ call.bins = FloatBins(5, 2) /\ call.column = "y"
    /\ call.error = "ValueError" /\ rows # <<>>

IsDescribeCall == call.op \in {"describe", "column.describe"}

\* C7: a describe that is given percentiles in [0, 1] on a numeric column
\* returns, and in what a describe returns every percentile label of the
\* index stands at the value computed for that percentile, the labels being
\* as many as the values.
C7_LabelsMatchValues ==
    /\ (/\ call.op = "column.describe" /\ call.column = "x"
        /\ call.type_ \in {"continuous", "discrete", "Discrete"}
        /\ \A i \in 1..Len(call.percentiles.l) :
               call.percentiles.l[i] >= 0 /\ call.percentiles.l[i] <= 1000)
       => call.error = ""
    /\ (IsDescribeCall /\ call.error = "")
       => \A c \in 1..Len(call.result) :
              LET values == call.result[c].values
              IN  values # <<>> =>
                      /\ Len(values) = Len(call.index)
                      /\ \A i \in 1..Len(values) :
                             values[i].stat = "percentile"
                                 => call.index[i] = <<"%", values[i].p>>

\* C8: a describe whose type_ is neither continuous nor discrete, or one of
\* whose percentiles lies outside [0, 1], ends in a ValueError without the
\* describe statement executed, whatever the selection and the column.
C8_DescribeValidates ==
    (/\ IsDescribeCall
     /\ \/ call.type_ \notin {"continuous", "discrete", "Discrete"}
        \/ \E i \in 1..Len(call.percentiles.l) :
               call.percentiles.l[i] < 0 \/ call.percentiles.l[i] > 1000)
    => call.error = "ValueError" /\ ~Executed("describe")

\* the cell of column name in a row of a result over column_names
Cell(r, name) == r[IndexOf(column_names, name)]

\* cell a stands before cell b in the direction up
CellBefore(name, a, b, up) ==
    LET lt(u, v) == u # NULL /\ (v = NULL \/ Ord(name, u[1]) < Ord(name, v[1]))
    IN  IF up THEN lt(a, b) ELSE lt(b, a)

\* every two rows of the result that differ on a column of by stand in the
\* direction of the first such column
IsOrdered(res, by, dirs) ==
    \A i, j \in 1..Len(res) :
        i < j =>
            \A k \in 1..Len(by) :
                (/\ Cell(res[i], by[k]) # Cell(res[j], by[k])
                 /\ \A m \in 1..(k - 1) : Cell(res[i], by[m]) = Cell(res[j], by[m]))
                => CellBefore(by[k], Cell(res[i], by[k]), Cell(res[j], by[k]), dirs[k])

\* res holds every row of the table, restricted to column_names, as often as
\* the table does
IsPermutation(res) ==
    /\ Len(res) = Len(rows)
    /\ \A r \in Range(res) :
           Cardinality({i \in 1..Len(res) : res[i] = r})
               = Cardinality({i \in 1..Len(rows) : RowList(rows[i], column_names) = r})

\* C9: sort_values by one or more selected columns with a list ascending of
\* the same length returns a permutation of the table's rows in the
\* lexicographic order of by, column i in the direction ascending[i]; the
\* rows (3,b),(1,c),(2,a),(4,a),(2,d) by [x, y] with [True, False] come
\* back as (1,c),(2,d),(2,a),(3,b),(4,a).
C9_SortValuesIsLexicographic ==
    /\ (/\ call.op = "sort_values" /\ call.by # <<>>
        /\ Range(call.by) \subseteq Range(column_names)
        /\ call.ascending.ty = "list" /\ Len(call.ascending.l) = Len(call.by))
       => /\ call.error = ""
          /\ IsPermutation(call.result)
          /\ IsOrdered(call.result, call.by, call.ascending.l)
    /\ (/\ call.op = "sort_values" /\ rows = SortValuesTable
        /\ column_names = <<"x", "y">> /\ call.by = <<"x", "y">>
        /\ call.ascending = ListAscending(<<TRUE, FALSE>>))
       => call.result = << <<<<1>>, <<"c">>>>, <<<<2>>, <<"d">>>>, <<<<2>>, <<"a">>>>,
                           <<<<3>>, <<"b">>>>, <<<<4>>, <<"a">>>> >>

C9_Witness ==
    /\ call.op = "sort_values" /\ rows = SortValuesTable
    /\ column_names = <<"x", "y">> /\ call.by = <<"x", "y">>
    /\ call.ascending = ListAscending(<<TRUE, FALSE>>)
    /\ Len(call.result) = 5 /\ call.result[2] = <<<<2>>, <<"d">>>>

\* C10: sort_values with a single boolean ascending sorts every column of
\* by in that direction; with a list ascending of another length than by,
\* or with a by column that is not selected, it ends in a ValueError and
\* executes no statement.
C10_AscendingIsBroadcastOrMatched ==
    /\ (/\ call.op = "sort_values" /\ call.by # <<>>
        /\ Range(call.by) \subseteq Range(column_names)
        /\ call.ascending.ty = "bool")
       => /\ call.error = ""
          /\ Len(call.result) = Len(rows)
          /\ IsOrdered(call.result, call.by, [k \in 1..Len(call.by) |-> call.ascending.b])
    /\ (/\ call.op = "sort_values"
        /\ \/ call.ascending.ty = "list" /\ Len(call.ascending.l) # Len(call.by)
           \/ ~(Range(call.by) \subseteq Range(column_names)))
       => call.error = "ValueError" /\ call.stmts = <<>>

C10_Witness ==
    /\ call.op = "sort_values" /\ rows = SortValuesTable
    /\ column_names = <<"x", "y">> /\ call.by = <<"y", "x">>
    /\ call.ascending = BoolAscending(FALSE) /\ call.error = ""
    /\ call.result[4] = <<<<4>>, <<"a">>>> /\ call.result[5] = <<<<2>>, <<"a">>>>


C12_CountAndHeadReproduceTheInsertedRows ==
    /\ call.op = "count" /\ call.stmts # <<>> => call.result = <<Len(obj.inserted)>>
    /\ call.op = "head" /\ call.bins_used = DefaultNumRows => call.result = <<obj.inserted>>


\* the names a call selects that the catalog does not hold for the table
Absent ==
    LET all == {db.columns[i].column_name : i \in 1..Len(db.columns)}
    IN  IF call.column # "" THEN {call.column} \ all
        ELSE IF call.cols.none THEN {}
        ELSE Range(call.cols.l) \ all

C14_ExistenceIsCheckedFirst ==
    call.op \in {"Table", "getitem", "create"} /\ call.column = "" =>
        /\ call.check_existence /\ ~db.exists
           => call.error = "TableDoesNotExistError" /\ call.stmts = <<"exists">>
        /\ call.error \in {"TableDoesNotExistError", "NoSuchColumnError"}
           => Range(call.stmts) \subseteq {"exists", "metadata"}
        /\ call.error = "NoSuchColumnError" /\ call.check_existence
           => call.stmts = <<"exists", "metadata">>
        /\ ~call.check_existence
           => ~Contains(call.stmts, "exists") /\ call.error # "TableDoesNotExistError"

\* the check raised for a dropped table
C14_Witness ==
    /\ call.op = "Table" /\ ~db.exists /\ db.last = "drop"
    /\ call.check_existence /\ call.error = "TableDoesNotExistError"


\* C15: a Table object reads its column metadata at most once, and no call
\* on it and no change of the table by another session changes the metadata
\* it holds (its column names and data types, from which numeric_columns and
\* column_data_types are computed): the held metadata differs only when a
\* constructor has returned another object.
C15_MetadataIsReadOnce ==
    [][/\ obj'.fetches <= 1
       /\ call'.op = "dtypes" => call'.stmts = <<>>
       /\ obj'.metadata # obj.metadata
          => call'.op \in {"Table", "getitem", "create"} /\ call'.error = ""]_vars

\* dtypes answered from the metadata the object holds after another session
\* changed the table's columns
C15_Witness ==
    /\ call.op = "dtypes" /\ call.error = ""
    /\ db.exists /\ db.columns # obj.metadata[1]
    /\ call.result = <<[i \in 1..Len(column_names) |->
                          AllTypes(obj)[IndexOf(AllNames(obj), column_names[i])]]>>


\* C16: a Connection opens a handle only when each of username, password,
\* hostname and database is non-empty, taken from the argument when that is
\* non-empty and from the environment variable otherwise; if one of them is
\* empty in both, the construction fails and no handle is opened.
C16_ConnectionNeedsItsFourSettings ==
    call.op = "Connection" =>
        LET args == call.row.args
            env  == call.row.env
            set(v) == v # NULL /\ v # <<"">>
        IN  IF \A f \in Fields : set(args[f]) \/ set(env[f])
            THEN /\ call.error = "" /\ call.stmts = <<"connect">>
                 /\ \A f \in Fields :
                        call.result[1][f] = IF set(args[f]) THEN args[f] ELSE env[f]
            ELSE call.error = "ValueError" /\ call.stmts = <<>>

\* a handle was opened with one setting from the argument, although the
\* variable is set too, and one from the environment
C16_Witness ==
    /\ call.op = "Connection" /\ call.stmts = <<"connect">>
    /\ call.row.args[1] = <<"arg">> /\ call.row.env[1] = <<"env">>
    /\ call.row.args[2] = <<"">> /\ call.result[1][2] = <<"env">>

\* C17: Table.create executes, in this order, drop table if exists, a
\* commit, the create statement and a commit, all before the catalog queries
\* of the constructor; after it returned, the table exists and the metadata
\* of the returned Table is that of the new table.
C17_CreateDropsCommitsCreatesCommits ==
    call.op = "create" =>
        /\ Len(call.stmts) >= 3
        /\ SubSeq(call.stmts, 1, 3) = <<"drop if exists", "commit", "create">>
        /\ call.error = "" =>
              /\ Len(call.stmts) >= 4 /\ call.stmts[4] = "commit"
              /\ \A i \in 1..Len(call.stmts) :
                     call.stmts[i] \in {"exists", "metadata"} => i > 4
              /\ db.exists
              /\ obj.metadata = <<db.columns>>
              /\ column_names = AllNames(obj)
              /\ ~obj.dropped

\* create returned over a table that had other columns before
C17_Witness ==
    /\ call.op = "create" /\ call.error = ""
    /\ call.stmts = <<"drop if exists", "commit", "create", "commit", "metadata">>
    /\ AllNames(obj) = <<"x", "y">>


\* C18: Table.exists is true after Table.create returned, and false after
\* drop() returned, until the table is created again.
C18_ExistsFollowsCreateAndDrop ==
    call.op = "exists" =>
        /\ db.last = "create" => call.result = <<TRUE>>
        /\ db.last = "drop" => call.result = <<FALSE>>

\* exists answered False after drop() on the object
C18_Witness ==
    call.op = "exists" /\ db.last = "drop" /\ obj.dropped /\ call.result = <<FALSE>>


\* C19: after drop() on a Table object, while the table is gone, no count,
\* shape, dtypes, column attribute or selection on that object returns a
\* value.
C19_DropInvalidatesTheObject ==
    obj.dropped /\ ~db.exists /\ call.op \in {"count", "shape", "dtypes", "getitem"}
        => call.error # ""

\* C20: two Columns are equal exactly when their names are equal and their
\* parent tables are equal, and two Tables exactly when their fully-qualified
\* names are equal; so the Columns of one name of two Table objects over the
\* same table are equal.
C20_EqualityIsByName ==
    call.op = "eq" =>
        LET s == obj.tables[call.index[1]]
            t == obj.tables[call.index[2]]
        IN  IF call.by = <<>>
            THEN call.result = <<s.name = t.name>>
            ELSE call.result = <<call.by[1] = call.by[2] /\ s.name = t.name>>


\* C21: a call with invalid bins, invalid percentiles, an invalid type_, a
\* list ascending of another length than by, a column that is not numeric
\* for a bin count, or no bins on a column without a value, ends in a
\* ValueError and has executed no statement.
C21_ValidationIssuesNoStatement ==
    LET invalidBins == IsBinCall /\ call.bins \in {IntBins(0), IntBins(0 - 5), FloatBins(5, 2)}
        invalidDescribe ==
            /\ IsDescribeCall
            /\ \/ call.type_ \notin {"continuous", "discrete", "Discrete"}
               \/ \E i \in 1..Len(call.percentiles.l) :
                      call.percentiles.l[i] < 0 \/ call.percentiles.l[i] > 1000
        mismatched ==
            /\ call.op = "sort_values"
            /\ call.ascending.ty = "list" /\ Len(call.ascending.l) # Len(call.by)
        notNumeric == IsBinCall /\ ~NumericInTable
        noValue ==
            /\ IsBinCall /\ call.bins.ty = "NoneType"
            /\ NumericInTable /\ NonNull(rows, call.column) = <<>>
    IN  (invalidBins \/ invalidDescribe \/ mismatched \/ notNumeric \/ noValue)
        => call.error = "ValueError" /\ call.stmts = <<>>


\* C22: for Table(...), Table.create(...) and Table.exists(...), a
\* table_name 'foo.bar' reaches the wrapped function as schema 'foo' and
\* table_name 'bar' whether no schema, schema=None or schema='foo' was
\* passed; another schema, or more than one dot, is a ValueError and the
\* wrapped function is not called; for a table_name without a dot the schema
\* is the caller's when given and the OS user name otherwise.
C22_SchemaAndTableNameAreStandardized ==
    call.op \in {"Table", "create", "exists"} /\ call.row.credentials =>
        LET parts  == call.row.table_name
            schema == call.row.schema
            out    == call.result[1]
            none   == ~schema.given \/ schema.v = NULL
        IN  /\ Len(parts) = 2 /\ (none \/ schema.v = <<parts[1]>>)
               => /\ out.called
                  /\ out.schema = <<parts[1]>> /\ out.table_name = parts[2]
            /\ (Len(parts) = 2 /\ ~none /\ schema.v # <<parts[1]>>) \/ Len(parts) > 2
               => call.error = "ValueError" /\ ~out.called
            /\ Len(parts) = 1
               => /\ out.called /\ out.table_name = parts[1]
                  /\ out.schema = IF none THEN <<OsUser>> ELSE schema.v

\* C23: in Table(...), Table.create(...) and Table.exists(...) a Connection
\* is constructed exactly when no conn is given or it is None, and the
\* wrapped function then receives the new Connection; when the caller gives
\* a Connection no other is constructed, so the environment's settings
\* cannot make the call fail.
C23_ConnectionOnlyWhenNoneIsGiven ==
    call.op \in {"Table", "create", "exists"} =>
        LET conn  == call.row.conn
            out   == call.result[1]
        IN  IF ~conn.given \/ conn.v = NULL
            THEN out.called => out.connections = 1 /\ out.conn = <<"new">>
            ELSE /\ out.connections = 0
                 /\ out.called => out.conn = conn.v
                 /\ ~out.called => Len(call.row.table_name) # 1 /\ call.row.credentials


\* C24: Column.head(num_rows) and Table.head(num_rows) accept every positive
\* integer (the default 10 too) and "all": for a positive n at most n values
\* or rows are returned, for "all" every one, and a ValueError is raised only
\* for other arguments.
C24_HeadAcceptsPositiveAndAll ==
    call.op \in {"column.head", "head"} =>
        LET n == call.bins_used
        IN  IF n = AllRows
            THEN call.error = "" /\ Len(call.result[1]) = Len(rows)
            ELSE IF n > 0
            THEN call.error = "" /\ Len(call.result[1]) = Min(n, Len(rows))
            ELSE call.error = "ValueError"

\* C25: is_unique is true exactly when no value, NULL as one value among
\* them, stands in more than one row of the column when it is first read;
\* every later read of the same Column returns that value and executes no
\* statement, whatever was inserted since; unique() returns each distinct
\* value of the column exactly once, NULL too.
C25_IsUniqueIsCachedAndUniqueIsDistinct ==
    [][/\ call'.op = "is_unique" =>
              LET name == call'.column
              IN  IF obj.is_unique[name] = <<>>
                  THEN /\ call'.stmts # <<>>
                       /\ call'.result =
                              <<\A i, j \in 1..Len(rows) : rows[i][name] = rows[j][name] => i = j>>
                       /\ obj'.is_unique[name] = call'.result
                  ELSE call'.stmts = <<>> /\ call'.result = obj.is_unique[name]
       /\ \A c \in Range(AllColumnNames) :
              obj.is_unique[c] # <<>> => obj'.is_unique[c] = obj.is_unique[c]
       /\ call'.op = "unique" =>
              LET name == call'.column
                  res  == call'.result[1]
              IN  /\ \A i \in 1..Len(rows) : \E k \in 1..Len(res) : res[k] = rows[i][name]
                  /\ \A k \in 1..Len(res) : \E i \in 1..Len(rows) : res[k] = rows[i][name]
                  /\ \A k, m \in 1..Len(res) : res[k] = res[m] => k = m]_vars

\* is_unique of x answered True from the Column's cache although NULL
\* stands in two rows of x by now
C25_Witness ==
    /\ call.op = "is_unique" /\ call.column = "x" /\ call.stmts = <<>>
    /\ call.result = <<TRUE>>
    /\ \E i, j \in 1..Len(rows) : i # j /\ rows[i].x = NULL /\ rows[j].x = NULL



\* C26: in every constructed Table, sub-tables selected in any order or with
\* a name repeated among them, columns and column_names have the same length
\* and columns[i] is the Column named column_names[i]; so dtypes labels each
\* data type with the name of its column and _get_column_by_name(n) returns
\* the Column n.
C26_ColumnsAlignWithColumnNames ==
    /\ Len(columns) = Len(column_names)
    /\ \A i \in 1..Len(column_names) : columns[i] = column_names[i]
    /\ (call.op = "dtypes" /\ db.exists) =>
           /\ call.error = ""
           /\ call.result = <<[i \in 1..Len(column_names) |->
                  AllTypes(obj)[IndexOf(AllNames(obj), column_names[i])]]>>
    /\ \A n \in Range(column_names) :
           /\ IndexOf(column_names, n) <= Len(columns)
           /\ GetColumnByName(n) = n



\* C27: selection never widens: s[names] on a sub-table s returns a Table
\* or a Column whose columns all are among s.column_names, or raises; no
\* column left out of s can be had through s.
C27_SelectionNeverWidens ==
    [][(call'.op = "getitem" /\ call'.error = "") =>
           IF call'.column # ""
           THEN call'.result[1] \in Range(column_names)
           ELSE Range(column_names') \subseteq Range(column_names)]_vars



\* C28: after any sequence of count and shape reads, inserts and clearings
\* of the cached count, shape is (count, number of selected columns): its
\* first component is the value the count property returns at that moment.
C28_ShapeIsCountAndColumns ==
    (call.op = "shape" /\ call.error = "") =>
        /\ call.result[1][1] = IF obj.count # <<>> THEN obj.count[1] ELSE Len(rows)
        /\ call.result[1][2] = Len(column_names)



\* C29: for a description with count >= 1 and minimum <= 25% <= 75% <=
\* maximum, a bin-count call without bins uses a whole number of bins from 1
\* to 50, so the bin width is never a quotient by zero or by a negative
\* number; when maximum = minimum the rule takes its h = 0 branch and gives
\* the ceiling of sqrt(count), at least one bin.
C29_AutoBinsAreBetweenOneAndFifty ==
    (/\ IsBinCall /\ call.bins.ty = "NoneType"
     /\ call.desc.count >= 1 /\ call.desc.minimum # NULL
     /\ call.desc.minimum[1] <= call.desc.p25[1]
     /\ call.desc.p25[1] <= call.desc.p75[1]
     /\ call.desc.p75[1] <= call.desc.maximum[1])
    => /\ call.fd # <<>>
       /\ call.bins_used \in 1..MaxAutoBins
       /\ call.error # "ZeroDivisionError"
       /\ BinWidth(call.desc, call.bins_used).den > 0
       /\ call.desc.maximum = call.desc.minimum =>
              /\ call.fd[1] >= 1
              /\ call.fd[1] * call.fd[1] >= call.desc.count
              /\ (call.fd[1] - 1) * (call.fd[1] - 1) < call.desc.count

\* the rule chose one bin for a column whose only value makes maximum =
\* minimum, and the statement ran with it
C29_Witness ==
    /\ IsBinCall /\ call.bins.ty = "NoneType" /\ call.error = ""
    /\ call.desc.count >= 1 /\ call.desc.maximum = call.desc.minimum
    /\ call.fd = <<1>> /\ call.bins_used = 1 /\ Len(call.result) = 1



\* C30: Table.insert never commits: it leaves the committed rows as they
\* were, so a rollback on the connection removes the rows inserted since the
\* last commit, and they last only through a later commit on the connection;
\* insert_csv, create and drop each commit the connection's transaction, so
\* a rollback after one of them undoes nothing that insert() added before.
C30_InsertDoesNotCommitTheOthersDo ==
    [][/\ call'.op = "insert" =>
              /\ CommittedRows(db', rows') = CommittedRows(db, rows)
              /\ ~Executed("commit")'
       /\ call'.op = "rollback" =>
              rows' = CommittedRows(db, rows) /\ db'.committed = <<>>
       /\ call'.op = "commit" => rows' = rows /\ CommittedRows(db', rows') = rows
       /\ (call'.op \in {"insert_csv", "create", "drop"} /\ Executed("commit")') =>
              /\ CommittedRows(db', rows') = rows'
              /\ call'.op = "insert_csv" => SubSeq(rows', 1, Len(rows)) = rows
       /\ (call'.op \in {"insert_csv", "create", "drop"} /\ call'.error = "") =>
              Executed("commit")']_vars

\* insert_csv has committed its two rows together with the row that insert()
\* had added before it on the connection
C30_Witness ==
    /\ call.op = "insert_csv" /\ call.error = "" /\ db.committed = <<>>
    /\ Len(rows) = 3 /\ obj.inserted[1] = [x |-> <<1>>, y |-> <<"a">>]
    /\ rows[1] = obj.inserted[1]

=============================================================================
